---- MODULE Spec2Model ----
(***************************************************************************)
(* async-socks5: the SOCKS5 client of src/lib.rs as a state machine.       *)
(*                                                                         *)
(* One attempt is one call of Socks5Client::connect or                     *)
(* Socks5Client::connect_with_domain.  Every await point of the code is    *)
(* one action; the proxy and the transport are the environment.  Bytes are *)
(* integers 0..255, byte strings are sequences of bytes.                   *)
(***************************************************************************)
EXTENDS Integers, Sequences, FiniteSets, TLC

(***************************************************************************)
(* Bounds of the model.                                                    *)
(***************************************************************************)
\* how many attempts exist side by side
NumAttempts == 2
\* how far above 255 bytes the explored domain / credential lengths go
Overshoot == 2

(***************************************************************************)
(* Program constants.                                                      *)
(***************************************************************************)
\* u8::MAX, the largest value of the one-byte length fields
U8Max == 255
\* let mut response = [0u8; 2]  (handshake and authenticate)
HandshakeReplyLen == 2
\* let mut response = vec![0u8; 10]  (connect and connect_with_domain)
ConnectReplyLen == 10

Attempts == 1..NumAttempts
Byte == 0..U8Max

(***************************************************************************)
(* Results: Result<TcpStream, Socks5Error>, or a panic of the task.        *)
(***************************************************************************)
Pending == [tag |-> "Pending", kind |-> "none"]
OkStream == [tag |-> "Ok", kind |-> "none"]
Err(e) == [tag |-> e, kind |-> "none"]
Panicked == [tag |-> "Panic", kind |-> "unwrap"]

\* a conversion that loses the I/O error and its kind
FromIoError_AsUnexpectedResponse(errkind) ==
    [tag |-> "UnexpectedResponse", kind |-> "none"]

\* impl From<std::io::Error> for Socks5Error
FromIoError(errkind) == [tag |-> "IoError", kind |-> errkind]

(***************************************************************************)
(* Pure functions of the encoder.                                          *)
(***************************************************************************)
\* AddrType::as_byte
AddrType_as_byte(t) ==
    CASE t = "IPv4" -> 1
      [] t = "DomainName" -> 3
      [] t = "IPv6" -> 4

\* `len as u8`: a wrapping cast
AsU8(n) == n % (U8Max + 1)

\* `len.try_into()` to u8: Err above u8::MAX
TryIntoU8(n) ==
    IF n <= U8Max THEN [ok |-> TRUE, val |-> n] ELSE [ok |-> FALSE, val |-> 0]

\* u16::to_be_bytes
To_be_bytes(p) == << p \div 256, p % 256 >>

\* a greeting that offers username/password alone when credentials are given
Greeting_OnlyUserPass(creds) ==
    IF creds.some THEN << 5, 1, 2 >> ELSE << 5, 1, 0 >>

\* handshake: the greeting
Greeting(creds) ==
    IF creds.some THEN << 5, 2, 0, 2 >> ELSE << 5, 1, 0 >>

\* a request whose second length byte repeats the username's length
AuthRequest_RepeatedLength(creds) ==
    << 1 >> \o << AsU8(Len(creds.user)) >> \o creds.user
            \o << AsU8(Len(creds.user)) >> \o creds.pass

\* authenticate: the request
AuthRequest(creds) ==
    << 1 >> \o << AsU8(Len(creds.user)) >> \o creds.user
            \o << AsU8(Len(creds.pass)) >> \o creds.pass

\* a request that tags every address as IPv4
ConnectRequest_AlwaysV4Tag(addr) ==
    << 5, 1, 0 >> \o << AddrType_as_byte("IPv4") >> \o addr.ip.octets
                  \o To_be_bytes(addr.port)

\* connect: the request
ConnectRequest(addr) ==
    << 5, 1, 0 >>
      \o (IF addr.ip.v = "V4"
            THEN << AddrType_as_byte("IPv4") >> \o addr.ip.octets
            ELSE << AddrType_as_byte("IPv6") >> \o addr.ip.octets)
      \o To_be_bytes(addr.port)

\* a request whose port is little-endian
DomainRequest_LittleEndianPort(dlen, dom, p) ==
    << 5, 1, 0, AddrType_as_byte("DomainName"), dlen >> \o dom
        \o << p % 256, p \div 256 >>

\* connect_with_domain: the request, given the unwrapped length byte
DomainRequest(dlen, dom, p) ==
    << 5, 1, 0, AddrType_as_byte("DomainName"), dlen >> \o dom \o To_be_bytes(p)


(***************************************************************************)
(* The decisions the code takes on a reply.                                *)
(***************************************************************************)
\* a match that rejects the 0xFF sentinel alone
MethodOutcome_OnlySentinel(response, creds) ==
    CASE response[2] = 2 -> IF creds.some THEN "Authenticate"
                                          ELSE "AuthenticationFailed"
      [] response[2] = 255 -> "HandshakeFailed"
      [] OTHER -> "NoAuth"

\* a match that takes method 0x02 for no authentication
MethodOutcome_SkipAuth(response, creds) ==
    CASE response[2] = 0 -> "NoAuth"
      [] response[2] = 2 -> "NoAuth"
      [] OTHER -> "HandshakeFailed"

\* handshake: match response[1] { 0x00 => .., 0x02 => .., _ => .. }
MethodOutcome(response, creds) ==
    CASE response[2] = 0 -> "NoAuth"
      [] response[2] = 2 -> IF creds.some THEN "Authenticate"
                                          ELSE "AuthenticationFailed"
      [] OTHER -> "HandshakeFailed"

\* a check that fails on status 0x01 alone
AuthOutcome_OnlyOne(response) ==
    IF response[2] = 1 THEN "AuthenticationFailed" ELSE "Ok"

\* authenticate: if response[1] != 0x00 { return Err(AuthenticationFailed) }
AuthOutcome(response) ==
    IF response[2] # 0 THEN "AuthenticationFailed" ELSE "Ok"

\* a check that also demands the version byte 0x05 in response[0]
ConnectOutcome_ChecksVersion(response) ==
    IF response[1] # 5 \/ response[2] # 0 THEN "ConnectionFailed" ELSE "Ok"

\* connect: if response[1] != 0x00 { return Err(ConnectionFailed) }
ConnectOutcome(response) ==
    IF response[2] # 0 THEN "ConnectionFailed" ELSE "Ok"

\* a check of response[0], the version byte, in place of the status
DomainOutcome_FirstByte(response) ==
    IF response[1] # 0 THEN "ConnectionFailed" ELSE "Ok"

\* connect_with_domain: if response[1] != 0x00 { return Err(ConnectionFailed) }
DomainOutcome(response) ==
    IF response[2] # 0 THEN "ConnectionFailed" ELSE "Ok"

(***************************************************************************)
(* Inputs of the calls.                                                    *)
(***************************************************************************)
\* a byte string of n bytes whose bytes differ along it
Pattern(n) == [i \in 1..n |-> 97 + (i % 26)]

\* "example.com", "user", "pass"
ExampleCom == << 101, 120, 97, 109, 112, 108, 101, 46, 99, 111, 109 >>
UserStr == << 117, 115, 101, 114 >>
PassStr == << 112, 97, 115, 115 >>

\* lengths above what one length byte holds
OverLens == { U8Max + i : i \in 1..Overshoot }

NoCredentials == [some |-> FALSE, user |-> << >>, pass |-> << >>]
Some(u, p) == [some |-> TRUE, user |-> u, pass |-> p]

CredentialInputs ==
    { NoCredentials,
      Some(UserStr, PassStr),
      Some(<< >>, Pattern(U8Max)),
      Some(Pattern(U8Max), << >>) }
    \cup { Some(Pattern(n), PassStr) : n \in OverLens }
    \cup { Some(UserStr, Pattern(n)) : n \in OverLens }

SockAddr(v, octets, p) == [ip |-> [v |-> v, octets |-> octets], port |-> p]
NoAddr == SockAddr("none", << >>, 0)

TargetInputs ==
    { SockAddr("V4", << 127, 0, 0, 1 >>, 80),
      SockAddr("V4", << 1, 2, 3, 4 >>, 443),
      SockAddr("V4", << 255, 254, 253, 252 >>, 65535),
      SockAddr("V6", [i \in 1..16 |-> 16 * i - 1], 8080) }

DomainInputs ==
    { ExampleCom, << >>, Pattern(U8Max) } \cup { Pattern(n) : n \in OverLens }

PortInputs == { 443, 80 }

(***************************************************************************)
(* What the proxy may answer at each read of the client.                   *)
(***************************************************************************)
GreetingReplies == { << v, m >> : v \in {5, 0}, m \in {0, 1, 2, 255} }

AuthReplies == { << v, s >> : v \in {1, 5}, s \in {0, 1, 255} }

\* the bound address of a CONNECT reply, by address type
BoundAddrs(atyp) ==
    CASE atyp = 1 -> { << 10, 0, 0, 1 >> }
      [] atyp = 4 -> { [i \in 1..16 |-> i] }
      [] atyp = 3 -> { << 0 >>, << 3, 102, 111, 111 >>, << 11 >> \o ExampleCom }
      [] OTHER -> { << 7, 7, 7, 7 >> }

ConnectReplies ==
    UNION { { << v, s, 0, atyp >> \o b \o << 4, 56 >> : b \in BoundAddrs(atyp) }
            : v \in {5, 0}, s \in {0, 5}, atyp \in {1, 3, 4, 9} }

(***************************************************************************)
(* State.  Every variable is a function of the attempt.                    *)
(***************************************************************************)
VARIABLES
    pc,            \* the await point the attempt stands at
    api,           \* "connect" or "connect_with_domain" ("none" before the call)
    target_addr,   \* argument of connect
    domain,        \* argument of connect_with_domain
    port,          \* argument of connect_with_domain
    credentials,   \* argument of both
    stream,        \* the TcpStream: "none", "open", "eof" (peer closed), "reset"
    owner,         \* who holds the stream: "none", "library", "caller", "dropped"
    rx,            \* bytes the proxy delivered and the client has not read
    consumed,      \* number of bytes the client has read from the stream
    proxyTurn,     \* a request was written and the proxy has not answered it
    greeting,      \* bytes written by handshake (<< >> while not written)
    authreq,       \* bytes written by authenticate
    request,       \* bytes written as the CONNECT request
    hsResponse,    \* handshake's response buffer once filled
    authResponse,  \* authenticate's response buffer once filled
    response,      \* connect's response buffer once filled
    result         \* what the call returned

inputVars == << api, target_addr, domain, port, credentials >>
netVars == << stream, owner, rx, consumed, proxyTurn >>
wireVars == << greeting, authreq, request >>
bufVars == << hsResponse, authResponse, response >>
vars == << pc, inputVars, netVars, wireVars, bufVars, result >>

Init ==
    /\ pc = [a \in Attempts |-> "Idle"]
    /\ api = [a \in Attempts |-> "none"]
    /\ target_addr = [a \in Attempts |-> NoAddr]
    /\ domain = [a \in Attempts |-> << >>]
    /\ port = [a \in Attempts |-> 0]
    /\ credentials = [a \in Attempts |-> NoCredentials]
    /\ stream = [a \in Attempts |-> "none"]
    /\ owner = [a \in Attempts |-> "none"]
    /\ rx = [a \in Attempts |-> << >>]
    /\ consumed = [a \in Attempts |-> 0]
    /\ proxyTurn = [a \in Attempts |-> FALSE]
    /\ greeting = [a \in Attempts |-> << >>]
    /\ authreq = [a \in Attempts |-> << >>]
    /\ request = [a \in Attempts |-> << >>]
    /\ hsResponse = [a \in Attempts |-> << >>]
    /\ authResponse = [a \in Attempts |-> << >>]
    /\ response = [a \in Attempts |-> << >>]
    /\ result = [a \in Attempts |-> Pending]

(***************************************************************************)
(* Helpers of the actions.                                                 *)
(***************************************************************************)
\* a return that starts the handshake over when the method was refused
Return_RetryHandshake(a, r) ==
    IF r = Err("HandshakeFailed")
      THEN /\ pc' = [pc EXCEPT ![a] = "WriteGreeting"]
           /\ UNCHANGED << result, owner >>
      ELSE /\ pc' = [pc EXCEPT ![a] = "Done"]
           /\ result' = [result EXCEPT ![a] = r]
           /\ owner' = [owner EXCEPT ![a] =
                           CASE r = OkStream -> "caller"
                             [] @ = "library" -> "dropped"
                             [] OTHER -> @]

\* a return that keeps holding the stream when the call fails
Return_KeepsStreamOnError(a, r) ==
    /\ pc' = [pc EXCEPT ![a] = "Done"]
    /\ result' = [result EXCEPT ![a] = r]
    /\ owner' = [owner EXCEPT ![a] = IF r = OkStream THEN "caller" ELSE @]

\* the function returns: Err(r) drops the local `stream`, Ok hands it over
Return(a, r) ==
    /\ pc' = [pc EXCEPT ![a] = "Done"]
    /\ result' = [result EXCEPT ![a] = r]
    /\ owner' = [owner EXCEPT ![a] =
                    CASE r = OkStream -> "caller"
                      [] @ = "library" -> "dropped"
                      [] OTHER -> @]

Goto(a, label) ==
    /\ pc' = [pc EXCEPT ![a] = label]
    /\ UNCHANGED << result, owner >>

\* stream.write_all(..).await: fails on a transport that was reset
WriteFails(a) == stream[a] = "reset"

\* a read that gives up on its own while the transport is open
ReadFails_Timeout(a, n) == Len(rx[a]) < n

\* stream.read_exact(buf).await with buf of n bytes: returns once n bytes are
\* there, fails once the transport has ended with fewer, waits otherwise
ReadReady(a, n) == Len(rx[a]) >= n
\* a read_exact that never notices the end of the stream
ReadFails_NeverNoticesEof(a, n) == FALSE
ReadFails(a, n) == Len(rx[a]) < n /\ stream[a] \in {"eof", "reset"}
ReadErrorKind(a) ==
    IF stream[a] = "eof" THEN "UnexpectedEof" ELSE "ConnectionReset"

\* the n bytes a successful read_exact takes, and what it leaves
Taken(a, n) == SubSeq(rx[a], 1, n)
Left(a, n) == SubSeq(rx[a], n + 1, Len(rx[a]))

\* a read through one receive buffer shared by all attempts
Consume_SharedBuffer(a, n) ==
    /\ rx' = [b \in Attempts |-> IF b = a THEN Left(a, n) ELSE << >>]
    /\ consumed' = [consumed EXCEPT ![a] = @ + n]
    /\ UNCHANGED << stream, proxyTurn >>

\* read_exact succeeded: n bytes leave the stream
Consume(a, n) ==
    /\ rx' = [rx EXCEPT ![a] = Left(a, n)]
    /\ consumed' = [consumed EXCEPT ![a] = @ + n]
    /\ UNCHANGED << stream, proxyTurn >>

\* read_exact failed: what had arrived is gone with it
Drain(a) ==
    /\ rx' = [rx EXCEPT ![a] = << >>]
    /\ consumed' = [consumed EXCEPT ![a] = @ + Len(rx[a])]
    /\ UNCHANGED << stream, proxyTurn >>

(***************************************************************************)
(* The calls.                                                              *)
(***************************************************************************)
\* pub async fn connect(proxy_addr, target_addr, credentials)
Call_connect(a, t, c) ==
    /\ pc[a] = "Idle"
    /\ api' = [api EXCEPT ![a] = "connect"]
    /\ target_addr' = [target_addr EXCEPT ![a] = t]
    /\ credentials' = [credentials EXCEPT ![a] = c]
    /\ Goto(a, "TcpConnect")
    /\ UNCHANGED << domain, port, netVars, wireVars, bufVars >>

\* pub async fn connect_with_domain(proxy_addr, domain, port, credentials)
Call_connect_with_domain(a, d, p, c) ==
    /\ pc[a] = "Idle"
    /\ api' = [api EXCEPT ![a] = "connect_with_domain"]
    /\ domain' = [domain EXCEPT ![a] = d]
    /\ port' = [port EXCEPT ![a] = p]
    /\ credentials' = [credentials EXCEPT ![a] = c]
    /\ Goto(a, "TcpConnect")
    /\ UNCHANGED << target_addr, netVars, wireVars, bufVars >>

\* let mut stream = TcpStream::connect(proxy_addr).await?;  the proxy accepts
TcpConnectOk(a) ==
    /\ pc[a] = "TcpConnect"
    /\ stream' = [stream EXCEPT ![a] = "open"]
    /\ owner' = [owner EXCEPT ![a] = "library"]
    /\ pc' = [pc EXCEPT ![a] = "WriteGreeting"]
    /\ UNCHANGED << inputVars, rx, consumed, proxyTurn, wireVars, bufVars, result >>

\* let mut stream = TcpStream::connect(proxy_addr).await?;  it does not
TcpConnectErr(a) ==
    /\ pc[a] = "TcpConnect"
    /\ Return(a, FromIoError("ConnectionRefused"))
    /\ UNCHANGED << inputVars, stream, rx, consumed, proxyTurn, wireVars, bufVars >>

(***************************************************************************)
(* handshake                                                               *)
(***************************************************************************)
\* build the greeting; stream.write_all(&greeting).await?
WriteGreeting(a) ==
    /\ pc[a] = "WriteGreeting"
    /\ IF WriteFails(a)
         THEN /\ Return(a, FromIoError("ConnectionReset"))
              /\ UNCHANGED << greeting, proxyTurn >>
         ELSE /\ greeting' = [greeting EXCEPT ![a] = Greeting(credentials[a])]
              /\ proxyTurn' = [proxyTurn EXCEPT ![a] = TRUE]
              /\ Goto(a, "ReadGreeting")
    /\ UNCHANGED << inputVars, stream, rx, consumed, authreq, request, bufVars >>

\* stream.read_exact(&mut response).await?; match response[1] { .. }
ReadGreeting(a) ==
    /\ pc[a] = "ReadGreeting"
    /\ \/ /\ ReadReady(a, HandshakeReplyLen)
          /\ Consume(a, HandshakeReplyLen)
          /\ hsResponse' = [hsResponse EXCEPT ![a] = Taken(a, HandshakeReplyLen)]
          /\ LET o == MethodOutcome(Taken(a, HandshakeReplyLen), credentials[a])
             IN  CASE o = "NoAuth" -> Goto(a, "WriteRequest")
                   [] o = "Authenticate" -> Goto(a, "WriteAuth")
                   [] OTHER -> Return(a, Err(o))
       \/ /\ ReadFails(a, HandshakeReplyLen)
          /\ Drain(a)
          /\ Return(a, FromIoError(ReadErrorKind(a)))
          /\ UNCHANGED hsResponse
    /\ UNCHANGED << inputVars, wireVars, authResponse, response >>

(***************************************************************************)
(* authenticate                                                            *)
(***************************************************************************)
\* build the request; stream.write_all(&request).await?
WriteAuth(a) ==
    /\ pc[a] = "WriteAuth"
    /\ IF WriteFails(a)
         THEN /\ Return(a, FromIoError("ConnectionReset"))
              /\ UNCHANGED << authreq, proxyTurn >>
         ELSE /\ authreq' = [authreq EXCEPT ![a] = AuthRequest(credentials[a])]
              /\ proxyTurn' = [proxyTurn EXCEPT ![a] = TRUE]
              /\ Goto(a, "ReadAuth")
    /\ UNCHANGED << inputVars, stream, rx, consumed, greeting, request, bufVars >>

\* stream.read_exact(&mut response).await?; if response[1] != 0x00 { .. }
ReadAuth(a) ==
    /\ pc[a] = "ReadAuth"
    /\ \/ /\ ReadReady(a, HandshakeReplyLen)
          /\ Consume(a, HandshakeReplyLen)
          /\ authResponse' = [authResponse EXCEPT ![a] = Taken(a, HandshakeReplyLen)]
          /\ LET o == AuthOutcome(Taken(a, HandshakeReplyLen))
             IN  IF o = "Ok" THEN Goto(a, "WriteRequest") ELSE Return(a, Err(o))
       \/ /\ ReadFails(a, HandshakeReplyLen)
          /\ Drain(a)
          /\ Return(a, FromIoError(ReadErrorKind(a)))
          /\ UNCHANGED authResponse
    /\ UNCHANGED << inputVars, wireVars, hsResponse, response >>

(***************************************************************************)
(* connect: the request and its reply                                      *)
(***************************************************************************)
\* build the request; stream.write_all(&request).await?
Connect_WriteRequest(a) ==
    /\ pc[a] = "WriteRequest"
    /\ api[a] = "connect"
    /\ IF WriteFails(a)
         THEN /\ Return(a, FromIoError("ConnectionReset"))
              /\ UNCHANGED << request, proxyTurn >>
         ELSE /\ request' = [request EXCEPT ![a] = ConnectRequest(target_addr[a])]
              /\ proxyTurn' = [proxyTurn EXCEPT ![a] = TRUE]
              /\ Goto(a, "ReadReply")
    /\ UNCHANGED << inputVars, stream, rx, consumed, greeting, authreq, bufVars >>

\* stream.read_exact(&mut response).await?; if response[1] != 0x00 { .. }
Connect_ReadReply(a) ==
    /\ pc[a] = "ReadReply"
    /\ api[a] = "connect"
    /\ \/ /\ ReadReady(a, ConnectReplyLen)
          /\ Consume(a, ConnectReplyLen)
          /\ response' = [response EXCEPT ![a] = Taken(a, ConnectReplyLen)]
          /\ LET o == ConnectOutcome(Taken(a, ConnectReplyLen))
             IN  IF o = "Ok" THEN Return(a, OkStream) ELSE Return(a, Err(o))
       \/ /\ ReadFails(a, ConnectReplyLen)
          /\ Drain(a)
          /\ Return(a, FromIoError(ReadErrorKind(a)))
          /\ UNCHANGED response
    /\ UNCHANGED << inputVars, wireVars, hsResponse, authResponse >>

(***************************************************************************)
(* connect_with_domain: the request and its reply                          *)
(***************************************************************************)
\* build the request (domain.len().try_into().unwrap() panics above 255
\* bytes, before anything is written); stream.write_all(&request).await?
Domain_WriteRequest(a) ==
    /\ pc[a] = "WriteRequest"
    /\ api[a] = "connect_with_domain"
    /\ LET dlen == TryIntoU8(Len(domain[a]))
       IN  IF ~dlen.ok
             THEN /\ Return(a, Panicked)
                  /\ UNCHANGED << request, proxyTurn >>
             ELSE IF WriteFails(a)
               THEN /\ Return(a, FromIoError("ConnectionReset"))
                    /\ UNCHANGED << request, proxyTurn >>
               ELSE /\ request' = [request EXCEPT ![a] =
                                      DomainRequest(dlen.val, domain[a], port[a])]
                    /\ proxyTurn' = [proxyTurn EXCEPT ![a] = TRUE]
                    /\ Goto(a, "ReadReply")
    /\ UNCHANGED << inputVars, stream, rx, consumed, greeting, authreq, bufVars >>

\* stream.read_exact(&mut response).await?; if response[1] != 0x00 { .. }
Domain_ReadReply(a) ==
    /\ pc[a] = "ReadReply"
    /\ api[a] = "connect_with_domain"
    /\ \/ /\ ReadReady(a, ConnectReplyLen)
          /\ Consume(a, ConnectReplyLen)
          /\ response' = [response EXCEPT ![a] = Taken(a, ConnectReplyLen)]
          /\ LET o == DomainOutcome(Taken(a, ConnectReplyLen))
             IN  IF o = "Ok" THEN Return(a, OkStream) ELSE Return(a, Err(o))
       \/ /\ ReadFails(a, ConnectReplyLen)
          /\ Drain(a)
          /\ Return(a, FromIoError(ReadErrorKind(a)))
          /\ UNCHANGED response
    /\ UNCHANGED << inputVars, wireVars, hsResponse, authResponse >>

(***************************************************************************)
(* The environment: the proxy at the other end of the stream.              *)
(***************************************************************************)
RepliesAt(label) ==
    CASE label = "ReadGreeting" -> GreetingReplies
      [] label = "ReadAuth" -> AuthReplies
      [] label = "ReadReply" -> ConnectReplies
      [] OTHER -> {}

\* the proxy answers the request it was sent: a whole reply, or only the
\* first k bytes of one, after which it sends nothing more
ProxyReply(a) ==
    /\ proxyTurn[a]
    /\ stream[a] = "open"
    /\ \E r \in RepliesAt(pc[a]) : \E k \in 1..Len(r) :
          rx' = [rx EXCEPT ![a] = @ \o SubSeq(r, 1, k)]
    /\ proxyTurn' = [proxyTurn EXCEPT ![a] = FALSE]
    /\ UNCHANGED << pc, inputVars, stream, owner, consumed, wireVars, bufVars, result >>

\* the proxy closes its side: what it sent stays readable
PeerClose(a) ==
    /\ pc[a] \notin {"Idle", "TcpConnect", "Done"}
    /\ stream[a] = "open"
    /\ stream' = [stream EXCEPT ![a] = "eof"]
    /\ UNCHANGED << pc, inputVars, owner, rx, consumed, proxyTurn, wireVars, bufVars, result >>

\* the connection is reset: what was not yet read is lost
TransportReset(a) ==
    /\ pc[a] \notin {"Idle", "TcpConnect", "Done"}
    /\ stream[a] \in {"open", "eof"}
    /\ stream' = [stream EXCEPT ![a] = "reset"]
    /\ rx' = [rx EXCEPT ![a] = << >>]
    /\ UNCHANGED << pc, inputVars, owner, consumed, proxyTurn, wireVars, bufVars, result >>

(***************************************************************************)
(* Specification: one caller makes one call.                               *)
(***************************************************************************)
Callers == {1}

Call(a) ==
    \/ \E t \in TargetInputs, c \in CredentialInputs : Call_connect(a, t, c)
    \/ \E d \in DomainInputs, p \in PortInputs, c \in CredentialInputs :
          Call_connect_with_domain(a, d, p, c)

ClientStep(a) ==
    \/ TcpConnectOk(a)
    \/ TcpConnectErr(a)
    \/ WriteGreeting(a)
    \/ ReadGreeting(a)
    \/ WriteAuth(a)
    \/ ReadAuth(a)
    \/ Connect_WriteRequest(a)
    \/ Connect_ReadReply(a)
    \/ Domain_WriteRequest(a)
    \/ Domain_ReadReply(a)

ProxyStep(a) ==
    \/ ProxyReply(a)
    \/ PeerClose(a)
    \/ TransportReset(a)

Next == \E a \in Callers : Call(a) \/ ClientStep(a) \/ ProxyStep(a)

Spec == Init /\ [][Next]_vars

(***************************************************************************)
(* Specification: NumAttempts callers, each making one call, on            *)
(* transports of their own; the steps of the attempts interleave freely.   *)
(* The proxy answers each request with a whole reply.                      *)
(***************************************************************************)
CallConc(a) ==
    \/ Call_connect(a, SockAddr("V4", << 1, 2, 3, 4 >>, 443), NoCredentials)
    \/ Call_connect_with_domain(a, ExampleCom, 443, Some(UserStr, PassStr))

ConcRepliesAt(label) ==
    CASE label = "ReadGreeting" -> { << 5, 0 >>, << 5, 2 >>, << 5, 255 >> }
      [] label = "ReadAuth" -> { << 1, 0 >>, << 1, 1 >> }
      [] label = "ReadReply" -> { << 5, 0, 0, 1, 10, 0, 0, 1, 4, 56 >>,
                                  << 5, 5, 0, 1, 0, 0, 0, 0, 0, 0 >> }
      [] OTHER -> {}

ProxyReplyWhole(a) ==
    /\ proxyTurn[a]
    /\ stream[a] = "open"
    /\ \E r \in ConcRepliesAt(pc[a]) : rx' = [rx EXCEPT ![a] = @ \o r]
    /\ proxyTurn' = [proxyTurn EXCEPT ![a] = FALSE]
    /\ UNCHANGED << pc, inputVars, stream, owner, consumed, wireVars, bufVars, result >>

NextConc == \E a \in Attempts : CallConc(a) \/ ClientStep(a) \/ ProxyReplyWhole(a)

SpecConc == Init /\ [][NextConc]_vars

(***************************************************************************)
(* Specification: one caller whose domain and credential fields fit their  *)
(* one-byte length prefix, under fair scheduling.  The runtime polls the   *)
(* future whenever it can make a step; the proxy, while the client may     *)
(* still be waiting, eventually delivers bytes or the transport fails.     *)
(***************************************************************************)
FitsLengthByte(c) == Len(c.user) <= U8Max /\ Len(c.pass) <= U8Max

CallLive(a) ==
    \/ \E t \in TargetInputs :
          \E c \in { x \in CredentialInputs : FitsLengthByte(x) } :
             Call_connect(a, t, c)
    \/ \E d \in { x \in DomainInputs : Len(x) <= U8Max }, p \in PortInputs :
          \E c \in { x \in CredentialInputs : FitsLengthByte(x) } :
             Call_connect_with_domain(a, d, p, c)

NextLive == \E a \in Callers : CallLive(a) \/ ClientStep(a) \/ ProxyStep(a)

Fairness ==
    \A a \in Callers : WF_vars(ClientStep(a)) /\ WF_vars(ProxyStep(a))

SpecLive == Init /\ [][NextLive]_vars /\ Fairness

(***************************************************************************)
(* Reading the written bytes back, as a proxy would parse them.            *)
(***************************************************************************)
\* the methods a greeting 05 N m1..mN offers
OfferedMethods(g) == { g[i] : i \in 3..Len(g) }
WellFormedGreeting(g) == Len(g) >= 2 /\ g[1] = 5 /\ Len(g) = 2 + g[2]

\* the two bytes at positions i, i+1 of s read as a big-endian number
BigEndian16(s, i) == s[i] * 256 + s[i + 1]

\* the handshake has returned Ok: the code is at, or past, building the request
HandshakeDone(a) ==
    /\ hsResponse[a] # << >>
    /\ \/ hsResponse[a][2] = 0
       \/ /\ hsResponse[a][2] = 2
          /\ authResponse[a] # << >>
          /\ authResponse[a][2] = 0

(***************************************************************************)
(* C1.  The greeting is 05 01 00 without credentials and 05 02 00 02 with  *)
(* credentials; the offered methods are within {0x00, 0x02}, and 0x02 is   *)
(* offered exactly when credentials were supplied.  An attempt that waits  *)
(* for the greeting reply, or is past it, has written its greeting.        *)
(***************************************************************************)
C1_Greeting ==
    \A a \in Attempts :
      /\ pc[a] \in {"ReadGreeting", "WriteAuth", "ReadAuth", "WriteRequest", "ReadReply"}
            => greeting[a] # << >>
      /\ greeting[a] # << >> =>
            /\ credentials[a].some => greeting[a] = << 5, 2, 0, 2 >>
            /\ ~credentials[a].some => greeting[a] = << 5, 1, 0 >>
            /\ WellFormedGreeting(greeting[a])
            /\ OfferedMethods(greeting[a]) \subseteq {0, 2}
            /\ 0 \in OfferedMethods(greeting[a])
            /\ (2 \in OfferedMethods(greeting[a])) <=> credentials[a].some

C1_Witness ==
    \E a \in Attempts :
      /\ credentials[a].some
      /\ greeting[a] = << 5, 2, 0, 2 >>
      /\ pc[a] = "ReadGreeting"

(***************************************************************************)
(* C2.  The request written by connect is 05 01 00, the address type by IP *)
(* family (01 for IPv4, 04 for IPv6), the 4 or 16 octets in order, and the *)
(* port in two big-endian bytes; for 1.2.3.4:443 it is                     *)
(* 05 01 00 01 01 02 03 04 01 BB.                                          *)
(***************************************************************************)
C2_ConnectRequest ==
    \A a \in Attempts :
      (api[a] = "connect" /\ request[a] # << >>) =>
        LET r == request[a]
            t == target_addr[a]
            n == IF t.ip.v = "V4" THEN 4 ELSE 16
        IN  /\ Len(t.ip.octets) = n
            /\ Len(r) = 4 + n + 2
            /\ r[1] = 5 /\ r[2] = 1 /\ r[3] = 0
            /\ r[4] = (IF t.ip.v = "V4" THEN 1 ELSE 4)
            /\ \A i \in 1..n : r[4 + i] = t.ip.octets[i]
            /\ r[5 + n] \in Byte /\ r[6 + n] \in Byte
            /\ BigEndian16(r, 5 + n) = t.port
            /\ t = SockAddr("V4", << 1, 2, 3, 4 >>, 443)
                  => r = << 5, 1, 0, 1, 1, 2, 3, 4, 1, 187 >>

C2_Witness ==
    \E a \in Attempts :
      /\ api[a] = "connect"
      /\ target_addr[a].ip.v = "V6"
      /\ Len(request[a]) = 22
      /\ pc[a] = "ReadReply"

(***************************************************************************)
(* C3.  For a domain of at most 255 bytes the request written by           *)
(* connect_with_domain is 05 01 00 03, the domain's length in one byte,    *)
(* the domain bytes unchanged, and the port in two big-endian bytes; for   *)
(* "example.com":443 it is 05 01 00 03 0B 65 78 61 6D 70 6C 65 2E 63 6F 6D *)
(* 01 BB.                                                                  *)
(***************************************************************************)
C3_DomainRequest ==
    \A a \in Attempts :
      (api[a] = "connect_with_domain" /\ request[a] # << >> /\ Len(domain[a]) <= 255) =>
        LET r == request[a]
            n == Len(domain[a])
        IN  /\ Len(r) = 5 + n + 2
            /\ r[1] = 5 /\ r[2] = 1 /\ r[3] = 0 /\ r[4] = 3
            /\ r[5] = n
            /\ \A i \in 1..n : r[5 + i] = domain[a][i]
            /\ r[6 + n] \in Byte /\ r[7 + n] \in Byte
            /\ BigEndian16(r, 6 + n) = port[a]
            /\ (domain[a] = ExampleCom /\ port[a] = 443)
                  => r = << 5, 1, 0, 3, 11, 101, 120, 97, 109, 112, 108, 101,
                            46, 99, 111, 109, 1, 187 >>

C3_Witness ==
    \E a \in Attempts :
      /\ api[a] = "connect_with_domain"
      /\ Len(domain[a]) = 255
      /\ Len(request[a]) = 262
      /\ pc[a] = "ReadReply"

(***************************************************************************)
(* C4.  For a username and a password of at most 255 bytes each, the       *)
(* authentication request is 01, the username length, the username bytes,  *)
(* the password length, the password bytes; each length byte is the number *)
(* of bytes of its field.                                                  *)
(***************************************************************************)
C4_AuthRequest ==
    \A a \in Attempts :
      (/\ authreq[a] # << >>
       /\ Len(credentials[a].user) <= 255
       /\ Len(credentials[a].pass) <= 255) =>
        LET r == authreq[a]
            u == credentials[a].user
            w == credentials[a].pass
        IN  /\ Len(r) = 1 + 1 + Len(u) + 1 + Len(w)
            /\ r[1] = 1
            /\ r[2] = Len(u)
            /\ \A i \in 1..Len(u) : r[2 + i] = u[i]
            /\ r[3 + Len(u)] = Len(w)
            /\ \A i \in 1..Len(w) : r[3 + Len(u) + i] = w[i]

C4_Witness ==
    \E a \in Attempts :
      /\ authreq[a] # << >>
      /\ credentials[a] = Some(UserStr, PassStr)
      /\ authreq[a] = << 1, 4, 117, 115, 101, 114, 4, 112, 97, 115, 115 >>

(***************************************************************************)
(* C5.  A greeting reply whose method byte is neither 0x00 nor 0x02 (0xFF  *)
(* included), with or without credentials, ends the attempt with           *)
(* HandshakeFailed; no authentication request and no CONNECT request is    *)
(* written.                                                                *)
(***************************************************************************)
C5_OtherMethodFails ==
    \A a \in Attempts :
      (hsResponse[a] # << >> /\ hsResponse[a][2] \notin {0, 2}) =>
        /\ pc[a] = "Done"
        /\ result[a] = Err("HandshakeFailed")
        /\ authreq[a] = << >>
        /\ request[a] = << >>

C5_Witness ==
    \E a \in Attempts :
      /\ credentials[a].some
      /\ hsResponse[a] # << >>
      /\ hsResponse[a][2] = 255
      /\ result[a] = Err("HandshakeFailed")

(***************************************************************************)
(* C6.  When the server selects method 0x02: with credentials the attempt  *)
(* enters the authentication stage, and it stands at or past the CONNECT   *)
(* request only after the authentication request was written and answered  *)
(* with success; without credentials it ends with AuthenticationFailed and *)
(* neither request is written.                                             *)
(***************************************************************************)
C6_MethodUserPass ==
    \A a \in Attempts :
      (hsResponse[a] # << >> /\ hsResponse[a][2] = 2) =>
        IF credentials[a].some
          THEN /\ pc[a] \in {"WriteAuth", "ReadAuth", "WriteRequest", "ReadReply", "Done"}
               /\ pc[a] \in {"ReadAuth", "WriteRequest", "ReadReply"} => authreq[a] # << >>
               /\ (pc[a] \in {"WriteRequest", "ReadReply"} \/ request[a] # << >>) =>
                     /\ authreq[a] # << >>
                     /\ authResponse[a] # << >>
                     /\ authResponse[a][2] = 0
               /\ result[a] = Err("AuthenticationFailed") => authResponse[a] # << >>
          ELSE /\ pc[a] = "Done"
               /\ result[a] = Err("AuthenticationFailed")
               /\ authreq[a] = << >>
               /\ request[a] = << >>

C6_Witness ==
    \E a \in Attempts :
      /\ credentials[a].some
      /\ hsResponse[a] # << >>
      /\ hsResponse[a][2] = 2
      /\ authreq[a] # << >>
      /\ request[a] # << >>

(***************************************************************************)
(* C7.  The step that reads the authentication reply goes on to the        *)
(* CONNECT request when the status byte is 0x00 and ends the attempt with  *)
(* AuthenticationFailed when it is not; after a nonzero status no CONNECT  *)
(* request is ever written.                                                *)
(***************************************************************************)
C7_AuthStatusStep ==
    \A a \in Attempts :
      (pc[a] = "ReadAuth" /\ authResponse'[a] # << >>) =>
        IF authResponse'[a][2] = 0
          THEN pc'[a] = "WriteRequest" /\ result'[a] = Pending
          ELSE pc'[a] = "Done" /\ result'[a] = Err("AuthenticationFailed")

C7_AuthStatusInv ==
    \A a \in Attempts :
      authResponse[a] # << >> =>
        IF authResponse[a][2] = 0
          THEN /\ pc[a] \in {"WriteRequest", "ReadReply", "Done"}
               /\ result[a] # Err("AuthenticationFailed")
          ELSE /\ pc[a] = "Done"
               /\ result[a] = Err("AuthenticationFailed")
               /\ request[a] = << >>

\* C7: every step that reads the authentication reply decides as above, and
\* the decision stands in every later state
C7_AuthStatus == [][C7_AuthStatusStep]_vars /\ []C7_AuthStatusInv

C7_Witness ==
    \E a \in Attempts :
      /\ authResponse[a] # << >>
      /\ authResponse[a][2] = 0
      /\ request[a] # << >>

(***************************************************************************)
(* C8.  Once the CONNECT request is sent, in connect and in                *)
(* connect_with_domain alike, a reply read with status 0x00 and an IPv4    *)
(* bound address (10 bytes) gives Ok and hands the stream, not closed by   *)
(* the client, to the caller; a reply read with status 0x05 gives          *)
(* ConnectionFailed and the caller gets no stream.                         *)
(***************************************************************************)
C8_ConnectReply ==
    \A a \in Attempts :
      response[a] # << >> =>
        /\ request[a] # << >>
        /\ pc[a] = "Done"
        /\ (response[a][2] = 0 /\ response[a][4] = 1) =>
              /\ result[a] = OkStream
              /\ owner[a] = "caller"
              /\ stream[a] \in {"open", "eof"}
        /\ response[a][2] = 5 =>
              /\ result[a] = Err("ConnectionFailed")
              /\ owner[a] = "dropped"

C8_Witness ==
    \E a \in Attempts :
      /\ api[a] = "connect_with_domain"
      /\ response[a] = << 5, 0, 0, 1, 10, 0, 0, 1, 4, 56 >>
      /\ result[a] = OkStream
      /\ owner[a] = "caller"

C8_WitnessRefused ==
    \E a \in Attempts :
      /\ api[a] = "connect"
      /\ response[a] = << 5, 5, 0, 1, 10, 0, 0, 1, 4, 56 >>
      /\ result[a] = Err("ConnectionFailed")

(***************************************************************************)
(* C9.  connect_with_domain with a domain above 255 bytes never panics,    *)
(* never writes a request, and, once the handshake is through, returns     *)
(* UnsupportedAddressType.                                                 *)
(***************************************************************************)
C9_OversizedDomainTypedError ==
    \A a \in Attempts :
      (api[a] = "connect_with_domain" /\ Len(domain[a]) > 255) =>
        /\ result[a] # Panicked
        /\ request[a] = << >>
        /\ (HandshakeDone(a) /\ pc[a] = "Done")
              => result[a] = Err("UnsupportedAddressType")

\* what the code does there: it panics, with nothing of the request written
C9_OversizedDomainPanics ==
    \A a \in Attempts :
      (api[a] = "connect_with_domain" /\ Len(domain[a]) > 255) =>
        /\ request[a] = << >>
        /\ (HandshakeDone(a) /\ pc[a] = "Done") => result[a] = Panicked

C9_Witness ==
    \E a \in Attempts :
      /\ api[a] = "connect_with_domain"
      /\ Len(domain[a]) = 256
      /\ result[a] = Panicked

(***************************************************************************)
(* C10.  With a username or a password above 255 bytes nothing is sent on  *)
(* the transport, and no authentication request is written whose length    *)
(* byte differs from the length of its field.                              *)
(***************************************************************************)
OversizedCredentials(a) ==
    /\ credentials[a].some
    /\ (Len(credentials[a].user) > 255 \/ Len(credentials[a].pass) > 255)

LengthBytesTrue(a) ==
    /\ authreq[a][2] = Len(credentials[a].user)
    /\ authreq[a][3 + authreq[a][2]] = Len(credentials[a].pass)

C10_OversizedCredentialsRejected ==
    \A a \in Attempts :
      /\ OversizedCredentials(a) =>
            greeting[a] = << >> /\ authreq[a] = << >> /\ request[a] = << >>
      /\ authreq[a] # << >> => LengthBytesTrue(a)

\* the second half alone: the length bytes of a written request are true
C10_NoWrappedLength ==
    \A a \in Attempts : authreq[a] # << >> => LengthBytesTrue(a)

C10_Witness ==
    \E a \in Attempts :
      /\ Len(credentials[a].user) = 256
      /\ authreq[a] # << >>
      /\ authreq[a][2] = 0

(***************************************************************************)
(* Parsing a CONNECT reply as the protocol lays it out.                    *)
(***************************************************************************)
\* the length of the bound-address field that the address type of reply r
\* demands: 4 for 0x01, 16 for 0x04, 1+N for 0x03 with length byte N
AddrFieldLen(r) ==
    CASE r[4] = 1 -> 4
      [] r[4] = 4 -> 16
      [] r[4] = 3 -> 1 + r[5]

\* the length of the whole reply: header, bound address, port
WholeReplyLen(r) == 4 + AddrFieldLen(r) + 2

\* r holds one whole reply of a recognized address type, and nothing else
IsWholeReply(r) ==
    /\ Len(r) >= 5
    /\ r[4] \in {1, 3, 4}
    /\ Len(r) = WholeReplyLen(r)

\* the bytes the attempt has read from the stream after its CONNECT request
ReplyBytesConsumed(a) ==
    consumed[a] - Len(hsResponse[a]) - Len(authResponse[a])

(***************************************************************************)
(* C11.  On success the reply parser has consumed exactly the 4 header     *)
(* bytes, the address bytes that the reply's address type demands and the  *)
(* 2 port bytes: 22 bytes for a reply of type 0x04, and nothing of the     *)
(* reply is left in the stream.                                            *)
(***************************************************************************)
C11_ReplyConsumedExactly ==
    \A a \in Attempts :
      (result[a] = OkStream /\ response[a][4] \in {1, 3, 4}) =>
        ReplyBytesConsumed(a) = WholeReplyLen(response[a])

\* what the code does there: it has read 10 bytes whatever the address type
C11_ReplyConsumedTen ==
    \A a \in Attempts :
      result[a] = OkStream => ReplyBytesConsumed(a) = 10

\* success on an IPv6-typed reply of 22 bytes, 12 of them left unread
C11_Witness ==
    \E a \in Attempts :
      /\ result[a] = OkStream
      /\ response[a][2] = 0
      /\ response[a][4] = 4
      /\ ReplyBytesConsumed(a) = 10
      /\ Len(rx[a]) = 12

(***************************************************************************)
(* The state machine of an attempt, read off the position in the code.     *)
(***************************************************************************)
Phase(a) ==
    CASE pc[a] \in {"Idle", "TcpConnect"} -> "Disconnected"
      [] pc[a] \in {"WriteGreeting", "ReadGreeting"} -> "TransportOpen"
      [] pc[a] \in {"WriteAuth", "ReadAuth"} -> "Negotiated"
      [] pc[a] = "WriteRequest" ->
            IF authResponse[a] = << >> THEN "Negotiated" ELSE "Authenticated"
      [] pc[a] = "ReadReply" -> "RequestSent"
      [] pc[a] = "Done" ->
            IF result[a] = OkStream THEN "Established" ELSE "Failed"

\* the steps of the state machine: forward along the chain, or to Failed
ForwardSteps ==
    { << "Disconnected", "TransportOpen" >>,
      << "TransportOpen", "Negotiated" >>,
      << "Negotiated", "Authenticated" >>,
      << "Negotiated", "RequestSent" >>,
      << "Authenticated", "RequestSent" >>,
      << "RequestSent", "Established" >> }
    \cup { << p, "Failed" >> :
             p \in {"Disconnected", "TransportOpen", "Negotiated",
                    "Authenticated", "RequestSent"} }

\* the await points in the order of the code
PcOrder ==
    << "Idle", "TcpConnect", "WriteGreeting", "ReadGreeting", "WriteAuth",
       "ReadAuth", "WriteRequest", "ReadReply", "Done" >>
PcRank(label) == CHOOSE i \in 1..Len(PcOrder) : PcOrder[i] = label

(***************************************************************************)
(* C12.  An attempt moves only forward through Disconnected,               *)
(* TransportOpen, Negotiated, optionally Authenticated, RequestSent, then  *)
(* Established or Failed; no position of the code is taken twice, so each  *)
(* of the three requests is written at most once; Established and Failed   *)
(* have no outgoing step, and once there the attempt writes and reads      *)
(* nothing more.                                                           *)
(***************************************************************************)
C12_ForwardStep ==
    \A a \in Attempts :
      LET p == Phase(a)
          q == Phase(a)'
      IN  /\ p # q => << p, q >> \in ForwardSteps
          /\ pc'[a] # pc[a] => PcRank(pc'[a]) > PcRank(pc[a])
          /\ greeting'[a] # greeting[a] => (greeting[a] = << >> /\ pc[a] = "WriteGreeting")
          /\ authreq'[a] # authreq[a] => (authreq[a] = << >> /\ pc[a] = "WriteAuth")
          /\ request'[a] # request[a] => (request[a] = << >> /\ pc[a] = "WriteRequest")
          /\ p \in {"Established", "Failed"} =>
                /\ pc'[a] = pc[a] /\ result'[a] = result[a]
                /\ greeting'[a] = greeting[a] /\ authreq'[a] = authreq[a]
                /\ request'[a] = request[a]
                /\ rx'[a] = rx[a] /\ consumed'[a] = consumed[a]
                /\ stream'[a] = stream[a] /\ owner'[a] = owner[a]

C12_Forward == [][C12_ForwardStep]_vars

\* an attempt that went through every state of the chain
C12_Witness ==
    \E a \in Attempts :
      /\ Phase(a) = "Established"
      /\ greeting[a] # << >> /\ authreq[a] # << >> /\ request[a] # << >>
      /\ authResponse[a] # << >>

(***************************************************************************)
(* The three reads and the number of bytes each expects.                   *)
(***************************************************************************)
ReadStages == {"ReadGreeting", "ReadAuth", "ReadReply"}

ExpectedBytes(label) ==
    CASE label = "ReadGreeting" -> 2
      [] label = "ReadAuth" -> 2
      [] label = "ReadReply" -> 10

\* the buffer the read at `label` fills, as it is after the step
BufferAfter(a, label) ==
    CASE label = "ReadGreeting" -> hsResponse'[a]
      [] label = "ReadAuth" -> authResponse'[a]
      [] label = "ReadReply" -> response'[a]

(***************************************************************************)
(* C13.  At each of the three reads the attempt proceeds only once all the *)
(* expected bytes have arrived, and then takes exactly these; when the     *)
(* transport has ended or failed with fewer, the attempt ends with IoError *)
(* carrying the kind of the I/O error and the caller gets no stream.  A    *)
(* filled buffer is never a partial one.                                   *)
(***************************************************************************)
C13_ReadStep ==
    \A a \in Attempts :
      (pc[a] \in ReadStages /\ pc'[a] # pc[a]) =>
        LET n == ExpectedBytes(pc[a])
        IN  IF Len(rx[a]) >= n
              THEN /\ BufferAfter(a, pc[a]) = SubSeq(rx[a], 1, n)
                   /\ consumed'[a] = consumed[a] + n
                   /\ rx'[a] = SubSeq(rx[a], n + 1, Len(rx[a]))
                   /\ result'[a].tag # "IoError"
              ELSE /\ stream[a] \in {"eof", "reset"}
                   /\ pc'[a] = "Done"
                   /\ result'[a] =
                        [tag |-> "IoError",
                         kind |-> IF stream[a] = "eof" THEN "UnexpectedEof"
                                                       ELSE "ConnectionReset"]
                   /\ owner'[a] = "dropped"
                   /\ BufferAfter(a, pc[a]) = << >>

C13_FullBuffers ==
    \A a \in Attempts :
      /\ Len(hsResponse[a]) \in {0, 2}
      /\ Len(authResponse[a]) \in {0, 2}
      /\ Len(response[a]) \in {0, 10}
      /\ result[a] = OkStream => (Len(hsResponse[a]) = 2 /\ Len(response[a]) = 10)

C13_FullReads == [][C13_ReadStep]_vars /\ []C13_FullBuffers

\* the transport ended after a part of the CONNECT reply: IoError, no stream
C13_Witness ==
    \E a \in Attempts :
      /\ pc[a] = "Done"
      /\ request[a] # << >>
      /\ response[a] = << >>
      /\ ReplyBytesConsumed(a) \in 1..9
      /\ result[a] = [tag |-> "IoError", kind |-> "UnexpectedEof"]
      /\ owner[a] = "dropped"

(***************************************************************************)
(* What an attempt running alone returns, as a function of its own         *)
(* arguments and of the second byte of each reply it has read (-1 for a    *)
(* reply it has not read).                                                 *)
(***************************************************************************)
SecondByte(buf) == IF buf = << >> THEN -1 ELSE buf[2]

Decide(hasCreds, oversized, method, authStatus, status) ==
    IF method \notin {0, 2} THEN Err("HandshakeFailed")
    ELSE IF method = 2 /\ ~hasCreds THEN Err("AuthenticationFailed")
    ELSE IF method = 2 /\ authStatus # 0 THEN Err("AuthenticationFailed")
    ELSE IF oversized THEN Panicked
    ELSE IF status # 0 THEN Err("ConnectionFailed")
    ELSE OkStream

DecideFor(a) ==
    Decide(credentials[a].some,
           api[a] = "connect_with_domain" /\ Len(domain[a]) > 255,
           SecondByte(hsResponse[a]),
           SecondByte(authResponse[a]),
           SecondByte(response[a]))

\* everything the model holds of attempt a
AttemptState(a) ==
    << pc[a], api[a], target_addr[a], domain[a], port[a], credentials[a],
       stream[a], owner[a], rx[a], consumed[a], proxyTurn[a],
       greeting[a], authreq[a], request[a],
       hsResponse[a], authResponse[a], response[a], result[a] >>

(***************************************************************************)
(* C14.  Under every interleaving of the steps of concurrent attempts,     *)
(* each step changes the state of one attempt only, and each attempt       *)
(* writes the bytes and returns the result that its own arguments and its  *)
(* own proxy's replies give when it runs alone.                            *)
(***************************************************************************)
C14_OneAttemptPerStep ==
    \E a \in Attempts :
      \A b \in Attempts \ {a} : AttemptState(b)' = AttemptState(b)

C14_AsAlone ==
    \A a \in Attempts :
      /\ greeting[a] # << >> <=> PcRank(pc[a]) > PcRank("WriteGreeting")
                                  /\ stream[a] # "none"
      /\ greeting[a] # << >> =>
            greeting[a] = (IF credentials[a].some THEN << 5, 2, 0, 2 >>
                                                  ELSE << 5, 1, 0 >>)
      /\ authreq[a] # << >> <=> /\ SecondByte(hsResponse[a]) = 2
                                /\ credentials[a].some
                                /\ pc[a] # "WriteAuth"
      /\ authreq[a] # << >> =>
            authreq[a] = << 1, Len(credentials[a].user) >> \o credentials[a].user
                           \o << Len(credentials[a].pass) >> \o credentials[a].pass
      /\ request[a] # << >> <=> HandshakeDone(a) /\ pc[a] # "WriteRequest"
      /\ (request[a] # << >> /\ api[a] = "connect") =>
            request[a] = << 5, 1, 0, 1 >> \o target_addr[a].ip.octets
                           \o << target_addr[a].port \div 256,
                                 target_addr[a].port % 256 >>
      /\ (request[a] # << >> /\ api[a] = "connect_with_domain") =>
            request[a] = << 5, 1, 0, 3, Len(domain[a]) >> \o domain[a]
                           \o << port[a] \div 256, port[a] % 256 >>
      /\ pc[a] = "Done" =>
            result[a] = (IF stream[a] = "none"
                           THEN [tag |-> "IoError", kind |-> "ConnectionRefused"]
                           ELSE DecideFor(a))
      /\ pc[a] # "Done" => result[a] = Pending

C14_Independent == [][C14_OneAttemptPerStep]_vars /\ []C14_AsAlone

\* two attempts under way at once, one of them holding unread bytes while
\* the other has finished with a different result
C14_Witness ==
    \E a, b \in Attempts :
      /\ a # b
      /\ api[a] # api[b]
      /\ result[a] = OkStream
      /\ pc[b] = "ReadAuth" /\ rx[b] # << >>

(***************************************************************************)
(* C15.  No timeout: an attempt that waits for a reply whose bytes have    *)
(* not all arrived, on a transport that has not ended, can take no step of *)
(* its own; whatever step happens then leaves it waiting with no result.   *)
(* It leaves the wait only from a state where the awaited bytes are there  *)
(* or the transport has ended, so with a silent proxy and a transport that *)
(* never fails it waits forever.                                           *)
(***************************************************************************)
Blocked(a) ==
    /\ pc[a] \in ReadStages
    /\ Len(rx[a]) < ExpectedBytes(pc[a])
    /\ stream[a] = "open"

C15_NoOwnStep == \A a \in Attempts : Blocked(a) => ~ENABLED ClientStep(a)

C15_WaitStep ==
    \A a \in Attempts :
      Blocked(a) =>
        /\ pc'[a] = pc[a]
        /\ result'[a] = Pending
        /\ consumed'[a] = consumed[a]
        /\ owner'[a] = "library"

C15_NoTimeout == [][C15_WaitStep]_vars /\ []C15_NoOwnStep

\* the proxy has sent a part of the CONNECT reply and nothing since
C15_Witness ==
    \E a \in Attempts :
      /\ pc[a] = "ReadReply"
      /\ Len(rx[a]) \in 1..9
      /\ stream[a] = "open"
      /\ ~proxyTurn[a]
      /\ result[a] = Pending

(***************************************************************************)
(* C16.  A CONNECT reply whose address type is none of 0x01, 0x03, 0x04    *)
(* ends the attempt with UnexpectedResponse.                               *)
(***************************************************************************)
C16_UnknownAddrTypeRejected ==
    \A a \in Attempts :
      (response[a] # << >> /\ response[a][4] \notin {1, 3, 4}) =>
        result[a] = Err("UnexpectedResponse")

\* what the code does: UnexpectedResponse is returned by no path at all
C16_NeverUnexpectedResponse ==
    \A a \in Attempts : result[a].tag # "UnexpectedResponse"

\* a reply of address type 0x09 with status 0x00 reported as success
C16_Witness ==
    \E a \in Attempts :
      /\ response[a] # << >>
      /\ response[a][4] = 9
      /\ response[a][2] = 0
      /\ result[a] = OkStream
      /\ owner[a] = "caller"

(***************************************************************************)
(* C17.  A transport, once opened, is held by the library while the        *)
(* attempt runs and ends in exactly one of two ways: handed to the caller  *)
(* with Ok, or dropped with the failure.  After either the library does    *)
(* nothing more with it, and it never goes from one to the other.          *)
(***************************************************************************)
C17_OwnerInv ==
    \A a \in Attempts :
      /\ owner[a] \in {"none", "library", "caller", "dropped"}
      /\ owner[a] = "none" <=> stream[a] = "none"
      /\ owner[a] = "library" <=> (stream[a] # "none" /\ pc[a] # "Done")
      /\ owner[a] = "caller" <=> result[a] = OkStream
      /\ owner[a] = "dropped" <=>
            (stream[a] # "none" /\ pc[a] = "Done" /\ result[a] # OkStream)

C17_OwnerStep ==
    \A a \in Attempts :
      /\ owner'[a] # owner[a] =>
            << owner[a], owner'[a] >> \in
               { << "none", "library" >>, << "library", "caller" >>,
                 << "library", "dropped" >> }
      /\ owner[a] \in {"caller", "dropped"} =>
            /\ stream'[a] = stream[a]
            /\ rx'[a] = rx[a] /\ consumed'[a] = consumed[a]
            /\ greeting'[a] = greeting[a] /\ authreq'[a] = authreq[a]
            /\ request'[a] = request[a]

C17_Ownership == [][C17_OwnerStep]_vars /\ []C17_OwnerInv

\* a transport dropped after the proxy refused the CONNECT request
C17_Witness ==
    \E a \in Attempts :
      /\ stream[a] # "none"
      /\ result[a] = Err("ConnectionFailed")
      /\ owner[a] = "dropped"

(***************************************************************************)
(* C18.  A CONNECT reply with a nonzero status byte fails the attempt with *)
(* ConnectionFailed whatever its address type and length: when the whole   *)
(* reply is a domain-typed one shorter than 10 bytes and the proxy sends   *)
(* nothing more or closes, the attempt's next step is still the return of  *)
(* ConnectionFailed, neither a transport error nor a wait for more bytes.  *)
(***************************************************************************)
C18_NonzeroStatusFails ==
    \A a \in Attempts :
      ( /\ pc[a] = "ReadReply"
        /\ stream[a] \in {"open", "eof"}
        /\ IsWholeReply(rx[a])
        /\ rx[a][2] # 0 )
      => ENABLED ( /\ ClientStep(a)
                   /\ result'[a] = Err("ConnectionFailed") )

\* what the 10-byte read does with a whole reply that is shorter: it waits
\* while the stream is open, and returns the transport error once it closed
C18_ShortReplyStep ==
    \A a \in Attempts :
      ( /\ pc[a] = "ReadReply"
        /\ IsWholeReply(rx[a])
        /\ Len(rx[a]) < ConnectReplyLen
        /\ pc'[a] = "Done" )
      => /\ stream[a] = "eof"
         /\ result'[a] = FromIoError("UnexpectedEof")

C18_ShortReplyWaits ==
    \A a \in Attempts :
      ( /\ pc[a] = "ReadReply"
        /\ stream[a] = "open"
        /\ IsWholeReply(rx[a])
        /\ Len(rx[a]) < ConnectReplyLen )
      => ~ENABLED ClientStep(a)

C18_ShortReplyNeverDecided ==
    [][C18_ShortReplyStep]_vars /\ []C18_ShortReplyWaits

\* the proxy refused with the 7-byte reply 05 05 00 03 00 04 38 and closed
C18_Witness ==
    \E a \in Attempts :
      /\ pc[a] = "ReadReply"
      /\ rx[a] = << 5, 5, 0, 3, 0, 4, 56 >>
      /\ stream[a] = "eof"

(***************************************************************************)
(* C19.  When the proxy accepts the transport and at every stage           *)
(* eventually delivers the bytes the client waits for or the transport     *)
(* fails, every attempt whose domain and credential fields are at most     *)
(* 255 bytes long eventually returns, established or failed, after at      *)
(* most three request/reply exchanges.                                     *)
(***************************************************************************)
\* the requests the attempt has written
Exchanges(a) ==
    (IF greeting[a] # << >> THEN 1 ELSE 0)
    + (IF authreq[a] # << >> THEN 1 ELSE 0)
    + (IF request[a] # << >> THEN 1 ELSE 0)

Established(a) == pc[a] = "Done" /\ result[a] = OkStream
Failed(a) ==
    /\ pc[a] = "Done"
    /\ result[a].tag \in { "HandshakeFailed", "AuthenticationFailed",
                           "ConnectionFailed", "IoError" }

C19_BoundedWork ==
    \A a \in Attempts :
      /\ Exchanges(a) <= 3
      /\ consumed[a] <= 2 * HandshakeReplyLen + ConnectReplyLen
      /\ Len(hsResponse[a]) \in {0, HandshakeReplyLen}
      /\ Len(authResponse[a]) \in {0, HandshakeReplyLen}
      /\ Len(response[a]) \in {0, ConnectReplyLen}
      /\ pc[a] = "Done" => Established(a) \/ Failed(a)

C19_Terminates ==
    /\ \A a \in Attempts :
          (pc[a] = "TcpConnect") ~> (Established(a) \/ Failed(a))
    /\ []C19_BoundedWork

\* established after three exchanges, with a domain of the greatest length
C19_Witness ==
    \E a \in Attempts :
      /\ Established(a)
      /\ Exchanges(a) = 3
      /\ Len(domain[a]) = U8Max

(***************************************************************************)
(* C20.  The result of an attempt is a function of the second byte of each *)
(* reply only: the selected method, the authentication status, the CONNECT *)
(* status.  Replies that differ in the version byte, the reserved byte or  *)
(* the bound address and port bytes give the same result, so a reply with  *)
(* a version byte other than 0x05 (0x01 for authentication) is accepted    *)
(* like a well-formed one.  The replies meant are those the attempt has    *)
(* read in full; a transport error is not a reply.                         *)
(***************************************************************************)
\* the same reply with another byte in a position other than the second
Variants(r) ==
    { [r EXCEPT ![i] = b] : i \in (1..Len(r)) \ {2}, b \in {0, 1, 5, 255} }

C20_ResultDecided ==
    \A a \in Attempts :
      (pc[a] = "Done" /\ result[a].tag # "IoError") => result[a] = DecideFor(a)

C20_VariantsAgree ==
    \A a \in Attempts :
      /\ (pc[a] = "ReadGreeting" /\ ReadReady(a, HandshakeReplyLen)) =>
            \A r \in Variants(Taken(a, HandshakeReplyLen)) :
               MethodOutcome(r, credentials[a])
                  = MethodOutcome(Taken(a, HandshakeReplyLen), credentials[a])
      /\ (pc[a] = "ReadAuth" /\ ReadReady(a, HandshakeReplyLen)) =>
            \A r \in Variants(Taken(a, HandshakeReplyLen)) :
               AuthOutcome(r) = AuthOutcome(Taken(a, HandshakeReplyLen))
      /\ (pc[a] = "ReadReply" /\ ReadReady(a, ConnectReplyLen)) =>
            \A r \in Variants(Taken(a, ConnectReplyLen)) :
               /\ ConnectOutcome(r) = ConnectOutcome(Taken(a, ConnectReplyLen))
               /\ DomainOutcome(r) = DomainOutcome(Taken(a, ConnectReplyLen))

C20_SecondBytesOnly == C20_ResultDecided /\ C20_VariantsAgree

\* established through replies none of which carries the right version byte
C20_Witness ==
    \E a \in Attempts :
      /\ pc[a] = "Done" /\ result[a] = OkStream
      /\ hsResponse[a] # << >> /\ hsResponse[a][1] # 5
      /\ authResponse[a] # << >> /\ authResponse[a][1] # 1
      /\ response[a][1] # 5

====
